---------------------------- MODULE Spec2Model ----------------------------
(***************************************************************************)
(* A model of the burst-type.pro typing trainer.                           *)
(*                                                                         *)
(*   src/config/state.ts  the session reducer (levels, streaks, custom     *)
(*                        wordlists, jumps, sounds)                        *)
(*   src/app/page.tsx     the earlier, simpler reducer of the page         *)
(*                                                                         *)
(* A string is a sequence of one-character strings.  An optional field     *)
(* of the source that is absent holds Undefined; an optional list is a     *)
(* sequence of length 0 (absent) or 1 (present).  Date.now() is the        *)
(* variable now, in milliseconds; it advances by the step Tick only, so    *)
(* any number of dispatches may read the same clock value.                 *)
(*                                                                         *)
(* LOAD_STATE, SET_WORD and SET_CHARACTERS of state.ts replace the state   *)
(* or the word by an arbitrary payload; they are not dispatched in the     *)
(* behaviours checked here.                                                *)
(***************************************************************************)
EXTENDS Integers, Sequences, FiniteSets, TLC

VARIABLES
    state,      \* the State of state.ts held by the reducer's owner
    sounds,     \* the sounds playSound let through in the last dispatch
    now,        \* Date.now()
    page,       \* the State of page.tsx
    audio       \* the module-level audio state of state.ts: SOUNDS and the loads under way

vars == <<state, sounds, now, page, audio>>

---------------------------------------------------------------------------
(* Bounds of the model *)

\* the clock advances TickMs at a time, MaxTicks times at most
TickMs == 400
MaxTicks == 2

\* the keys of APPEND_BUFFER payloads
Keys == {"a", "b", " "}

\* payloads of SET_TARGET_WPM and SET_TARGET_STREAK (members of wpmOptions, streakOptions)
WpmPayloads == {30, 60}
StreakPayloads == {1, 3}

\* payloads of SET_WORDLIST
WordlistPayloads == { << <<"b">> >>, << <<"A", "b">>, <<"a">> >> }

---------------------------------------------------------------------------
(* Values *)

Undefined == -1

\* Math.round(x / 0) for x > 0
Infinity == 1000000000

Max(a, b) == IF a >= b THEN a ELSE b
Min(a, b) == IF a <= b THEN a ELSE b

\* String.prototype.toLowerCase on one character
toLowerCase(c) ==
    CASE c = "A" -> "a"
      [] c = "B" -> "b"
      [] OTHER -> c

\* the default wordlist: an ordered list of lowercase words
en1000 == << <<"a">>, <<"a", "b">>, <<"b">> >>

defaultLevel == 0
defaultTargetWPM == 90
defaultTargetStreak == 5

createWord(list, index) ==
    [ characters |-> [ i \in 1..(Len(list[index + 1]) + 1) |->
                         [ character |-> toLowerCase((list[index + 1] \o <<" ">>)[i]),
                           correct |-> "undefined" ] ],
      startTime |-> Undefined,
      endTime |-> Undefined,
      wpm |-> Undefined,
      match |-> FALSE,
      hitTargetWPM |-> FALSE,
      streak |-> 0 ]

initialState ==
    [ word |-> createWord(en1000, defaultLevel),
      level |-> defaultLevel,
      highestLevel |-> defaultLevel,
      buffer |-> <<>>,
      targetWPM |-> defaultTargetWPM,
      targetStreak |-> defaultTargetStreak,
      finished |-> FALSE,
      lastSave |-> Undefined,
      showInstructions |-> TRUE,
      lastWPM |-> Undefined,
      darkMode |-> TRUE,
      customWordlist |-> <<>>,
      muted |-> TRUE ]

successSounds == <<"success">>
errorSounds == <<"error">>
speedErrorSounds == <<"speed-error">>
clickSounds == <<"click">>

\* state.customWordlist ?? en1000
activeWordlist(s) == IF s.customWordlist = <<>> THEN en1000 ELSE s.customWordlist[1]

---------------------------------------------------------------------------
(* APPEND_BUFFER *)

\* appendBuffer.split('').every((character, index) => character === word.characters[index].character)
matchOf(appendBuffer, word) ==
    \A i \in 1..Len(appendBuffer) : appendBuffer[i] = word.characters[i].character

\* Math.round(length / 5 / ((t - (startTime ?? 0)) / 60_000))
wpmOf(length, startTime, t) ==
    LET elapsed == t - (IF startTime = Undefined THEN 0 ELSE startTime)
    IN  IF elapsed = 0 THEN Infinity
        ELSE (24000 * length + elapsed) \div (2 * elapsed)

\* characters.map(... correct: buf[index] === undefined ? undefined : character === buf[index])
markCharacters(characters, buf) ==
    [ i \in 1..Len(characters) |->
        [ character |-> characters[i].character,
          correct |-> IF i > Len(buf) THEN "undefined"
                      ELSE IF characters[i].character = buf[i] THEN "true" ELSE "false" ] ]

\* appendIgnored without the guard on finished
appendIgnoredUnlessFinished(s, payload) ==
    \/ s.showInstructions
    \/ (Len(s.buffer) = 0 /\ payload = " ")
    \/ s.word.streak >= s.targetStreak

\* the guards that return the state as it is
appendIgnored(s, payload) ==
    \/ s.showInstructions
    \/ s.finished
    \/ (Len(s.buffer) = 0 /\ payload = " ")
    \/ s.word.streak >= s.targetStreak

\* mismatchResult without the reset of the streak
mismatchKeepsStreak(s, appendBuffer, t) ==
    [ s EXCEPT !.word = [ @ EXCEPT !.endTime = t,
                                    !.characters = markCharacters(@, appendBuffer),
                                    !.wpm = 0,
                                    !.match = FALSE,
                                    !.hitTargetWPM = FALSE ],
               !.buffer = <<>> ]

\* the branch taken when the appended buffer does not match
mismatchResult(s, appendBuffer, t) ==
    [ s EXCEPT !.word = [ @ EXCEPT !.endTime = t,
                                    !.streak = 0,
                                    !.characters = markCharacters(@, appendBuffer),
                                    !.wpm = 0,
                                    !.match = FALSE,
                                    !.hitTargetWPM = FALSE ],
               !.buffer = <<>> ]

\* the appended buffer is the whole word, typed for the first time
completes(s, appendBuffer) ==
    s.word.endTime = Undefined /\ Len(appendBuffer) >= Len(s.word.characters)

\* streakOf counting a fast completion twice
streakCountsTwice(s, hitTargetWPM) == IF hitTargetWPM THEN s.word.streak + 2 ELSE 0

\* streakOf counting a slow completion too
streakIgnoresSpeed(s, hitTargetWPM) == s.word.streak + 1

streakOf(s, hitTargetWPM) == IF hitTargetWPM THEN s.word.streak + 1 ELSE 0

finishResult(s, t) == [ s EXCEPT !.finished = TRUE, !.lastSave = t ]

\* advanceResult carrying the typed buffer over to the next word
advanceKeepsBuffer(s, t) ==
    [ s EXCEPT !.level = s.level + 1,
               !.highestLevel = Max(s.highestLevel, s.level + 1),
               !.word = createWord(activeWordlist(s), s.level + 1),
               !.lastSave = t ]

advanceResult(s, t) ==
    [ s EXCEPT !.level = s.level + 1,
               !.highestLevel = Max(s.highestLevel, s.level + 1),
               !.word = createWord(activeWordlist(s), s.level + 1),
               !.buffer = <<>>,
               !.lastSave = t ]

completionResult(s, appendBuffer, t) ==
    LET wpm == wpmOf(Len(appendBuffer), s.word.startTime, t)
        hitTargetWPM == wpm >= s.targetWPM
        streak == streakOf(s, hitTargetWPM)
    IN  IF streak >= s.targetStreak
        THEN IF s.level + 1 = Len(activeWordlist(s))
             THEN finishResult(s, t)
             ELSE advanceResult(s, t)
        ELSE [ s EXCEPT !.buffer = <<>>,
                        !.word = [ @ EXCEPT !.endTime = t,
                                            !.streak = streak,
                                            !.characters = markCharacters(@, appendBuffer),
                                            !.wpm = wpm,
                                            !.match = TRUE,
                                            !.hitTargetWPM = hitTargetWPM ],
                        !.lastWPM = wpm ]

\* typingResult stamping endTime on every keystroke
typingStampsEndTime(s, appendBuffer, t) ==
    [ s EXCEPT !.buffer = appendBuffer,
               !.word = [ @ EXCEPT !.startTime = IF @ = Undefined THEN t ELSE @,
                                   !.endTime = t,
                                   !.characters = markCharacters(@, appendBuffer) ] ]

typingResult(s, appendBuffer, t) ==
    [ s EXCEPT !.buffer = appendBuffer,
               !.word = [ @ EXCEPT !.startTime = IF @ = Undefined THEN t ELSE @,
                                   !.characters = markCharacters(@, appendBuffer) ] ]

\* replayResult without carrying the streak over
replayDropsStreak(s, nextBuffer, t) ==
    LET repeatWord == createWord(activeWordlist(s), s.level)
    IN  [ s EXCEPT !.word = [ repeatWord EXCEPT !.startTime = t,
                                                !.characters = markCharacters(@, nextBuffer) ],
                   !.buffer = nextBuffer ]

\* replayResult starting the word again with an empty buffer
replayDropsKey(s, nextBuffer, t) ==
    LET repeatWord == createWord(activeWordlist(s), s.level)
        fresh == [ repeatWord EXCEPT !.startTime = t ]
    IN  [ s EXCEPT !.word = [ fresh EXCEPT !.streak = s.word.streak ], !.buffer = <<>> ]

\* the keystroke after a completed or failed attempt starts the word again
replayResult(s, nextBuffer, t) ==
    LET repeatWord == createWord(activeWordlist(s), s.level)
        fresh == [ repeatWord EXCEPT !.startTime = t,
                                     !.characters = markCharacters(@, nextBuffer) ]
    IN  IF ~s.word.match \/ s.word.wpm < s.targetWPM
        THEN [ s EXCEPT !.word = fresh, !.buffer = nextBuffer ]
        ELSE IF s.word.streak < s.targetStreak
        THEN [ s EXCEPT !.word = [ fresh EXCEPT !.streak = s.word.streak ],
                        !.buffer = nextBuffer ]
        ELSE s

appendBufferResult(s, payload, t) ==
    LET appendBuffer == s.buffer \o <<payload>>
    IN  IF appendIgnored(s, payload) THEN s
        ELSE IF ~matchOf(appendBuffer, s.word) THEN mismatchResult(s, appendBuffer, t)
        ELSE IF completes(s, appendBuffer) THEN completionResult(s, appendBuffer, t)
        ELSE IF s.word.endTime = Undefined /\ Len(appendBuffer) < Len(s.word.characters)
        THEN typingResult(s, appendBuffer, t)
        ELSE IF s.word.wpm = Undefined THEN s
        ELSE replayResult(s, <<payload>>, t)

\* playSound: nothing when muted
playSound(s, name) == IF s.muted THEN <<>> ELSE <<name>>

\* every sound name of the session
SoundNames ==
    { successSounds[1], errorSounds[1], speedErrorSounds[1], clickSounds[1] }

\* const SOUNDS = {}: no sound decoded, no loadSound promise pending, nothing
\* started, no fetch issued
audioInitial ==
    [ SOUNDS |-> {},
      loading |-> <<>>,
      started |-> <<>>,
      fetches |-> [ n \in SoundNames |-> 0 ] ]

\* a step that starts no sound
quiet(a) == [ a EXCEPT !.started = <<>> ]

\* characters[i]?.correct
correctAt(word, i) ==
    IF i >= 1 /\ i <= Len(word.characters) THEN word.characters[i].correct ELSE "undefined"

\* the sounds of one APPEND_BUFFER
appendBufferSounds(s, payload, t) ==
    LET appendBuffer == s.buffer \o <<payload>>
        n == Len(appendBuffer)
        wpm == wpmOf(n, s.word.startTime, t)
    IN  IF appendIgnored(s, payload) THEN <<>>
        ELSE IF ~matchOf(appendBuffer, s.word)
        THEN IF correctAt(s.word, n) = "false" /\ n > 1 /\ correctAt(s.word, n - 1) = "true"
             THEN playSound(s, errorSounds[1])
             ELSE <<>>
        ELSE playSound(s, clickSounds[1]) \o
             ( IF completes(s, appendBuffer)
               THEN IF wpm >= s.targetWPM
                    THEN playSound(s, successSounds[1])
                    ELSE playSound(s, speedErrorSounds[1])
               ELSE <<>> )

---------------------------------------------------------------------------
(* The other actions of state.ts *)

saveStateResult(s, t) == [ s EXCEPT !.lastSave = t ]

setTargetStreakResult(s, payload, t) == [ s EXCEPT !.targetStreak = payload, !.lastSave = t ]

\* setTargetWPMResult reopening a finished session
setTargetWPMReopens(s, payload, t) ==
    [ s EXCEPT !.targetWPM = payload, !.finished = FALSE, !.lastSave = t ]

setTargetWPMResult(s, payload, t) == [ s EXCEPT !.targetWPM = payload, !.lastSave = t ]

\* setWordlistResult spreading the state instead of initialState
setWordlistKeepsSession(s, payload, t) ==
    [ s EXCEPT !.level = 0,
               !.highestLevel = 0,
               !.word = createWord(payload, 0),
               !.customWordlist = <<payload>>,
               !.lastSave = t,
               !.showInstructions = FALSE ]

setWordlistResult(s, payload, t) ==
    [ initialState EXCEPT !.level = 0,
                          !.highestLevel = 0,
                          !.word = createWord(payload, 0),
                          !.targetWPM = s.targetWPM,
                          !.targetStreak = s.targetStreak,
                          !.darkMode = s.darkMode,
                          !.customWordlist = <<payload>>,
                          !.lastSave = t,
                          !.showInstructions = FALSE ]

\* jumpTo without clearing finished
jumpKeepsFinished(s, level, t) ==
    [ s EXCEPT !.level = level,
               !.word = createWord(activeWordlist(s), level),
               !.buffer = <<>>,
               !.lastSave = t ]

jumpTo(s, level, t) ==
    [ s EXCEPT !.level = level,
               !.word = createWord(activeWordlist(s), level),
               !.buffer = <<>>,
               !.finished = FALSE,
               !.lastSave = t ]

\* jumpForwardsResult without the clamp to highestLevel
jumpForwardsUnclamped(s, t) ==
    IF s.showInstructions \/ s.highestLevel = Undefined THEN s
    ELSE IF s.level + 1 < Len(activeWordlist(s)) THEN jumpTo(s, s.level + 1, t) ELSE s

jumpForwardsResult(s, t) ==
    IF s.showInstructions \/ s.highestLevel = Undefined THEN s
    ELSE jumpTo(s, Min(s.highestLevel, s.level + 1), t)

jumpBackwardsResult(s, t) ==
    IF s.showInstructions \/ s.highestLevel = Undefined THEN s
    ELSE jumpTo(s, Max(0, s.level - 1), t)

\* jumpStartResult without the guard on showInstructions
jumpStartUnguarded(s, t) == jumpTo(s, 0, t)

jumpStartResult(s, t) ==
    IF s.showInstructions THEN s ELSE jumpTo(s, 0, t)

jumpEndResult(s, t) ==
    IF s.showInstructions \/ s.highestLevel = Undefined THEN s
    ELSE jumpTo(s, s.highestLevel, t)

resetStateResult(t) == [ initialState EXCEPT !.lastSave = t ]

toggleInstructionsResult(s) == [ s EXCEPT !.showInstructions = ~@ ]

toggleDarkModeResult(s, t) == [ s EXCEPT !.darkMode = ~@, !.lastSave = t ]

\* toggleMutedResult switching the sound on whatever it was
toggleMutedSetsOn(s, t) == [ s EXCEPT !.muted = FALSE, !.lastSave = t ]

toggleMutedResult(s, t) == [ s EXCEPT !.muted = ~@, !.lastSave = t ]

---------------------------------------------------------------------------
(* The reducer of page.tsx *)

\* the words of config/wordlist.json
wordlist == << <<"a">>, <<"a", "b">> >>

\* the keys the keydown handler passes on: /^[a-z]$/
PageKeys == {"a", "b"}

\* the targets the buttons of the page offer
PageWpmPayloads == {30, 60, 90, 120}
PageStreakPayloads == {1, 3}

\* a value used as a condition: undefined and 0 are false
truthy(x) == x # Undefined /\ x # 0

pageCreateWord(raw) ==
    [ characters |-> [ i \in 1..Len(raw) |->
                         [ character |-> toLowerCase(raw[i]), correct |-> "undefined" ] ],
      startTime |-> Undefined,
      endTime |-> Undefined,
      wpm |-> Undefined,
      match |-> FALSE,
      hitTargetWPM |-> FALSE,
      streak |-> 0 ]

startingLevel == 0
pageTargetWPM == 60
pageTargetStreak == 1

pageInitialState ==
    [ word |-> pageCreateWord(wordlist[startingLevel + 1]),
      level |-> startingLevel,
      buffer |-> <<>>,
      targetWPM |-> pageTargetWPM,
      targetStreak |-> pageTargetStreak,
      finished |-> FALSE ]

pageSetTargetStreak(s, payload) == [ s EXCEPT !.targetStreak = payload ]

pageSetTargetWPM(s, payload) == [ s EXCEPT !.targetWPM = payload ]

pageSetCharacters(s, payload) == [ s EXCEPT !.word.characters = payload ]

pageAppendBuffer(s, payload, t) ==
    IF truthy(s.word.endTime) THEN s
    ELSE IF Len(s.buffer) >= Len(s.word.characters) THEN s
    ELSE [ s EXCEPT !.buffer = @ \o <<payload>>,
                    !.word = IF truthy(s.word.startTime) THEN @
                             ELSE [ @ EXCEPT !.startTime = t ] ]

\* buffer.slice(0, -1)
pageBackspaceBuffer(s) ==
    IF truthy(s.word.endTime) THEN s
    ELSE [ s EXCEPT !.buffer = IF Len(@) = 0 THEN @ ELSE SubSeq(@, 1, Len(@) - 1) ]

\* Math.round(60 / ((t - (startTime ?? 0)) / 1000))
pageWpmOf(startTime, t) ==
    LET elapsed == t - (IF startTime = Undefined THEN 0 ELSE startTime)
    IN  IF elapsed = 0 THEN Infinity
        ELSE (120000 + elapsed) \div (2 * elapsed)

\* word.characters.every((character, index) => character.character === buffer[index])
pageMatchOf(word, buffer) ==
    \A i \in 1..Len(word.characters) :
        i <= Len(buffer) /\ word.characters[i].character = buffer[i]

\* pageEvaluate moving on to the next level at once when the attempt passes
pageEvaluateAdvances(s, t) ==
    LET wpm == pageWpmOf(s.word.startTime, t)
        match == pageMatchOf(s.word, s.buffer)
    IN  IF match /\ wpm >= s.targetWPM /\ s.level + 2 <= Len(wordlist)
        THEN [ s EXCEPT !.level = s.level + 1,
                        !.word = pageCreateWord(wordlist[s.level + 2]),
                        !.buffer = <<>> ]
        ELSE [ s EXCEPT !.word = [ @ EXCEPT !.endTime = t,
                                            !.wpm = wpm,
                                            !.match = match,
                                            !.hitTargetWPM = wpm >= s.targetWPM,
                                            !.streak = 0 ] ]

\* the first NEXT_LEVEL on a word: the attempt is measured
pageEvaluate(s, t) ==
    LET wpm == pageWpmOf(s.word.startTime, t)
        match == pageMatchOf(s.word, s.buffer)
        hitTargetWPM == wpm >= s.targetWPM
    IN  [ s EXCEPT !.word = [ @ EXCEPT !.endTime = t,
                                        !.streak = IF hitTargetWPM /\ match THEN @ + 1 ELSE 0,
                                        !.wpm = wpm,
                                        !.match = match,
                                        !.hitTargetWPM = hitTargetWPM ] ]

\* the last word is passed
pageFinish(s) == [ s EXCEPT !.level = s.level + 1, !.finished = TRUE ]

pageAdvance(s) ==
    [ s EXCEPT !.level = s.level + 1,
               !.word = pageCreateWord(wordlist[s.level + 2]),
               !.buffer = <<>> ]

pageNextLevel(s, t) ==
    IF s.finished \/ Len(s.buffer) = 0 THEN s
    ELSE IF s.word.endTime = Undefined THEN pageEvaluate(s, t)
    ELSE IF s.word.wpm = Undefined THEN s
    ELSE IF ~s.word.match \/ s.word.wpm < s.targetWPM
    THEN [ s EXCEPT !.word = pageCreateWord(wordlist[s.level + 1]), !.buffer = <<>> ]
    ELSE IF s.word.streak < s.targetStreak
    THEN [ s EXCEPT !.word = [ pageCreateWord(wordlist[s.level + 1])
                                 EXCEPT !.streak = s.word.streak ],
                    !.buffer = <<>> ]
    ELSE IF s.level + 1 = Len(wordlist) THEN pageFinish(s)
    ELSE pageAdvance(s)

\* pageResetGame spreading the state instead of initialState
pageResetKeepsLevel(s) ==
    [ s EXCEPT !.word = pageCreateWord(wordlist[startingLevel + 1]),
               !.buffer = <<>>,
               !.finished = FALSE ]

pageResetGame(s) == [ pageInitialState EXCEPT !.targetWPM = s.targetWPM ]

---------------------------------------------------------------------------
(* The session of state.ts as a state machine *)

Init ==
    /\ state = initialState
    /\ sounds = <<>>
    /\ now = TickMs
    /\ page = pageInitialState
    /\ audio = audioInitial

\* one dispatch: the reducer returns next
Dispatch(next, played) ==
    /\ state' = next
    /\ sounds' = played
    /\ audio' = quiet(audio)
    /\ UNCHANGED <<now, page>>

Tick ==
    /\ now < TickMs * (MaxTicks + 1)
    /\ now' = now + TickMs
    /\ audio' = quiet(audio)
    /\ UNCHANGED <<state, sounds, page>>

APPEND_BUFFER(payload) ==
    Dispatch(appendBufferResult(state, payload, now), appendBufferSounds(state, payload, now))

SAVE_STATE == Dispatch(saveStateResult(state, now), <<>>)

SET_TARGET_STREAK(payload) == Dispatch(setTargetStreakResult(state, payload, now), <<>>)

SET_TARGET_WPM(payload) == Dispatch(setTargetWPMResult(state, payload, now), <<>>)

SET_WORDLIST(payload) == Dispatch(setWordlistResult(state, payload, now), <<>>)

JUMP_FORWARDS == Dispatch(jumpForwardsResult(state, now), <<>>)

JUMP_BACKWARDS == Dispatch(jumpBackwardsResult(state, now), <<>>)

JUMP_START == Dispatch(jumpStartResult(state, now), <<>>)

JUMP_END == Dispatch(jumpEndResult(state, now), <<>>)

RESET_STATE == Dispatch(resetStateResult(now), <<>>)

TOGGLE_INSTRUCTIONS == Dispatch(toggleInstructionsResult(state), <<>>)

TOGGLE_DARK_MODE == Dispatch(toggleDarkModeResult(state, now), <<>>)

TOGGLE_MUTED == Dispatch(toggleMutedResult(state, now), <<>>)

AppendAny == \E payload \in Keys : APPEND_BUFFER(payload)

SetTargetStreakAny == \E payload \in StreakPayloads : SET_TARGET_STREAK(payload)

SetTargetWPMAny == \E payload \in WpmPayloads : SET_TARGET_WPM(payload)

SetWordlistAny == \E payload \in WordlistPayloads : SET_WORDLIST(payload)

Next ==
    \/ Tick
    \/ AppendAny
    \/ SAVE_STATE
    \/ SetTargetStreakAny
    \/ SetTargetWPMAny
    \/ SetWordlistAny
    \/ JUMP_FORWARDS
    \/ JUMP_BACKWARDS
    \/ JUMP_START
    \/ JUMP_END
    \/ RESET_STATE
    \/ TOGGLE_INSTRUCTIONS
    \/ TOGGLE_DARK_MODE
    \/ TOGGLE_MUTED

Spec == Init /\ [][Next]_vars

---------------------------------------------------------------------------
(* The page of page.tsx as a state machine *)

PageDispatch(next) ==
    /\ page' = next
    /\ UNCHANGED <<state, sounds, now, audio>>

PAGE_APPEND_BUFFER(payload) == PageDispatch(pageAppendBuffer(page, payload, now))

PAGE_BACKSPACE_BUFFER == PageDispatch(pageBackspaceBuffer(page))

PAGE_NEXT_LEVEL == PageDispatch(pageNextLevel(page, now))

PAGE_SET_TARGET_WPM(payload) == PageDispatch(pageSetTargetWPM(page, payload))

PAGE_SET_TARGET_STREAK(payload) == PageDispatch(pageSetTargetStreak(page, payload))

PAGE_RESET_GAME == PageDispatch(pageResetGame(page))

\* the effect on state.buffer: SET_CHARACTERS with the characters marked against the buffer
PAGE_SET_CHARACTERS ==
    PageDispatch(pageSetCharacters(page, markCharacters(page.word.characters, page.buffer)))

PageAppendAny == \E payload \in PageKeys : PAGE_APPEND_BUFFER(payload)

PageSetTargetWPMAny == \E payload \in PageWpmPayloads : PAGE_SET_TARGET_WPM(payload)

PageSetTargetStreakAny == \E payload \in PageStreakPayloads : PAGE_SET_TARGET_STREAK(payload)

PageNext ==
    \/ Tick
    \/ PageAppendAny
    \/ PAGE_BACKSPACE_BUFFER
    \/ PAGE_NEXT_LEVEL
    \/ PageSetTargetWPMAny
    \/ PageSetTargetStreakAny
    \/ PAGE_RESET_GAME
    \/ PAGE_SET_CHARACTERS

PageSpec == Init /\ [][PageNext]_vars

---------------------------------------------------------------------------
(* Properties of the session reducer of state.ts *)

\* the text the current word expects, trailing space included
expectedText(s) == [ i \in 1..Len(s.word.characters) |-> s.word.characters[i].character ]

isPrefix(a, b) == Len(a) <= Len(b) /\ SubSeq(b, 1, Len(a)) = a

lastIndex(s) == Len(activeWordlist(s)) - 1

\* this step is APPEND_BUFFER(ch), past the guards, with a character that breaks the prefix
MismatchStep(ch) ==
    /\ APPEND_BUFFER(ch)
    /\ ~state.showInstructions
    /\ ~state.finished
    /\ state.word.streak < state.targetStreak
    /\ ~(state.buffer = <<>> /\ ch = " ")
    /\ ~isPrefix(state.buffer \o <<ch>>, expectedText(state))

\* this step is APPEND_BUFFER(ch), past the guards, and completes the word: every
\* character matches, the full length is reached and endTime is undefined
CompletionStep(ch) ==
    /\ APPEND_BUFFER(ch)
    /\ ~state.showInstructions
    /\ ~state.finished
    /\ state.word.streak < state.targetStreak
    /\ ~(state.buffer = <<>> /\ ch = " ")
    /\ state.buffer \o <<ch>> = expectedText(state)
    /\ state.word.endTime = Undefined

\* C1: an APPEND_BUFFER that is not guarded out and whose character breaks the
\* prefix of the expected word empties the buffer and sets the streak to 0,
\* whatever the streak was, and leaves level and highestLevel as they were.
C1_MismatchResets ==
    [][ \A ch \in Keys :
          MismatchStep(ch) =>
            /\ state'.buffer = <<>>
            /\ state'.word.streak = 0
            /\ state'.level = state.level
            /\ state'.highestLevel = state.highestLevel ]_vars

\* a mismatch on the second character of a word already typed fast once at this level
C1_Witness ==
    /\ state.buffer = <<>>
    /\ state.word.streak = 0
    /\ state.word.wpm = 0
    /\ state.word.endTime # Undefined
    /\ correctAt(state.word, 1) = "true"
    /\ correctAt(state.word, 2) = "false"
    /\ state.lastWPM # Undefined

\* C2 as claimed: after every word completion the streak is 0 or the previous streak + 1.
C2_StreakZeroOrPlusOne ==
    [][ \A ch \in Keys :
          CompletionStep(ch) =>
            state'.word.streak \in {0, state.word.streak + 1} ]_vars

\* C2 as amended: after a word completion that does not finish the session the
\* streak is 0 or the previous streak + 1; the completion that finishes the
\* session leaves the word, and so its streak, as it was.
C2_StreakStep ==
    [][ \A ch \in Keys :
          CompletionStep(ch) =>
            /\ ~state'.finished => state'.word.streak \in {0, state.word.streak + 1}
            /\ state'.finished => state'.word = state.word ]_vars

\* the session finished on a completion that found a streak above 0
C2_Witness ==
    /\ state.finished
    /\ state.word.streak > 0
    /\ state.word.streak + 1 = state.targetStreak

\* C3: a completion on the last index that brings the streak to targetStreak
\* sets finished; and in a finished state every APPEND_BUFFER returns the
\* state unchanged.
C3_FinishThenFrozen ==
    [][ \A ch \in Keys :
          /\ ( /\ CompletionStep(ch)
               /\ state.level = lastIndex(state)
               /\ wpmOf(Len(state.buffer) + 1, state.word.startTime, now) >= state.targetWPM
               /\ state.word.streak + 1 >= state.targetStreak )
             => state'.finished
          /\ (state.finished /\ APPEND_BUFFER(ch)) => state' = state ]_vars

\* finished on the last word of a list of several words, the overlay hidden
C3_Witness ==
    /\ state.finished
    /\ ~state.showInstructions
    /\ state.level = lastIndex(state)
    /\ state.level > 0
    /\ state.lastSave < now

\* C4: 0 <= level <= highestLevel <= last index of the active wordlist.
C4_LevelInRange ==
    /\ 0 <= state.level
    /\ state.level <= state.highestLevel
    /\ state.highestLevel <= lastIndex(state)

\* a level strictly between 0 and the highest level reached
C4_Witness ==
    /\ 0 < state.level
    /\ state.level < state.highestLevel
    /\ state.highestLevel = lastIndex(state)

\* C5: highestLevel rises only by an APPEND_BUFFER that completes the word with
\* every character matching, wpm >= targetWPM and streak + 1 >= targetStreak,
\* and that step raises level by exactly 1.
C5_HighestLevelRises ==
    [][ state'.highestLevel > state.highestLevel =>
          \E ch \in Keys :
            /\ CompletionStep(ch)
            /\ wpmOf(Len(state.buffer) + 1, state.word.startTime, now) >= state.targetWPM
            /\ state.word.streak + 1 >= state.targetStreak
            /\ state'.level = state.level + 1
            /\ state'.highestLevel = state.highestLevel + 1 ]_vars

\* the highest level was raised twice
C5_Witness ==
    /\ state.highestLevel = 2
    /\ state.level = 2
    /\ state.word.startTime = Undefined

---------------------------------------------------------------------------
(* A typist who types every word correctly and fast, right after SET_WORDLIST *)

\* the typist's clock advances TypistMaxTicks times at most
TypistMaxTicks == 6

\* the typist's target streaks are 1..TypistMaxStreak
TypistMaxStreak == 3

TypistWordlists == WordlistPayloads \cup { en1000, << <<"a", "b">>, <<"b", "A">> >> }

TypistInit ==
    /\ \E list \in TypistWordlists, targetWPM \in WpmPayloads, k \in 1..TypistMaxStreak :
         state = setWordlistResult([ initialState EXCEPT !.targetWPM = targetWPM,
                                                         !.targetStreak = k ], list, TickMs)
    /\ sounds = <<>>
    /\ now = TickMs
    /\ page = pageInitialState
    /\ audio = audioInitial

\* the next expected character of the current word
expectedKey(s) == s.word.characters[Len(s.buffer) + 1].character

\* the word would measure wpm >= targetWPM if its last character were typed at t
fastAt(s, t) == wpmOf(Len(s.word.characters), s.word.startTime, t) >= s.targetWPM

\* an attempt is under way: the first character is typed, the last is not
attemptRunning(s) ==
    ~s.finished /\ s.word.startTime # Undefined /\ s.word.endTime = Undefined

\* the typist types the expected character, the last one of a word in time
TypeExpected ==
    /\ ~state.finished
    /\ (attemptRunning(state) /\ Len(state.buffer) + 1 = Len(state.word.characters))
         => fastAt(state, now)
    /\ APPEND_BUFFER(expectedKey(state))

\* time passes, never so much that the attempt under way would miss the target
TypistTick ==
    /\ now < TickMs * (TypistMaxTicks + 1)
    /\ attemptRunning(state) => fastAt(state, now + TickMs)
    /\ now' = now + TickMs
    /\ audio' = quiet(audio)
    /\ UNCHANGED <<state, sounds, page>>

TypistNext ==
    \/ TypeExpected
    \/ TypistTick

\* the typist keeps typing
TypistSpec == TypistInit /\ [][TypistNext]_vars /\ WF_vars(TypeExpected)

\* C6: typing only the expected characters, every completion fast, the typist
\* passes the levels one by one, each on the completion that brings the streak
\* to targetStreak (with targetStreak 1: on every completion), and in the end
\* the session is finished on the last index.
C6_TypistFinishes ==
    /\ [][ /\ state'.level \in {state.level, state.level + 1}
           /\ state'.level = state.level + 1 =>
                /\ state.word.streak + 1 = state.targetStreak
                /\ state.buffer \o <<" ">> = expectedText(state)
           /\ \A ch \in Keys :
                (CompletionStep(ch) /\ state.word.streak + 1 = state.targetStreak)
                  => (state'.finished \/ state'.level = state.level + 1)
           /\ state'.finished => state.level = lastIndex(state) ]_vars
    /\ <>(state.finished /\ state.level = lastIndex(state))

\* finished on the third word with a target streak of 3, after real elapsed time
C6_Witness ==
    /\ state.finished
    /\ state.level = 2
    /\ state.level = lastIndex(state)
    /\ state.targetStreak = 3
    /\ state.word.startTime < now

---------------------------------------------------------------------------
(* More properties of the session reducer of state.ts *)

\* C7: a finished session stands on the last index of the active wordlist.
C7_FinishedOnLastIndex == state.finished => state.level = lastIndex(state)

\* finished on the last index of a custom list, reached through level 0
C7_Witness ==
    /\ state.finished
    /\ state.customWordlist # <<>>
    /\ state.highestLevel = 1
    /\ state.level = lastIndex(state)

\* this step is APPEND_BUFFER(ch), past the guards, and completes the word at
\* the clock value at which its first character was typed
ZeroElapsedCompletion(ch) ==
    /\ CompletionStep(ch)
    /\ state.word.startTime = now

\* C9 as claimed: a completion with now - startTime = 0 fails the target: the
\* streak is reset to 0, the level is not advanced and the session not finished.
C9_ZeroElapsedFails ==
    [][ \A ch \in Keys :
          ZeroElapsedCompletion(ch) =>
            /\ state'.word.streak = 0
            /\ state'.word.hitTargetWPM = FALSE
            /\ state'.level = state.level
            /\ ~state'.finished ]_vars

\* C10: SET_WORDLIST(list) yields level 0, highestLevel 0, an empty buffer,
\* finished false, the fresh word of list[0] with streak 0, customWordlist =
\* list and showInstructions false, and keeps targetWPM, targetStreak and darkMode.
C10_SetWordlistResets ==
    [][ \A list \in WordlistPayloads :
          SET_WORDLIST(list) =>
            /\ state'.level = 0
            /\ state'.highestLevel = 0
            /\ state'.buffer = <<>>
            /\ state'.finished = FALSE
            /\ state'.word = createWord(list, 0)
            /\ state'.word.streak = 0
            /\ expectedText(state') = [ i \in 1..Len(list[1]) |-> toLowerCase(list[1][i]) ] \o <<" ">>
            /\ state'.customWordlist = <<list>>
            /\ state'.showInstructions = FALSE
            /\ state'.targetWPM = state.targetWPM
            /\ state'.targetStreak = state.targetStreak
            /\ state'.darkMode = state.darkMode ]_vars

\* right after SET_WORDLIST, with targets and dark mode that are not the defaults
C10_Witness ==
    /\ state.customWordlist # <<>>
    /\ state.word = createWord(state.customWordlist[1], 0)
    /\ state.lastSave = now
    /\ state.level = 0
    /\ state.buffer = <<>>
    /\ ~state.showInstructions
    /\ state.muted
    /\ state.lastWPM = Undefined
    /\ state.targetWPM # defaultTargetWPM
    /\ state.targetStreak # defaultTargetStreak
    /\ ~state.darkMode

---------------------------------------------------------------------------
(* Frame conditions of the session reducer of state.ts *)

\* the clock values of the model
ClockValues == { TickMs * k : k \in 1..(MaxTicks + 1) }

\* C11: while showInstructions is true, APPEND_BUFFER and the four JUMP actions
\* return the state unchanged; while finished is true, APPEND_BUFFER returns
\* the state unchanged.
C11_IgnoredInput ==
    [][ /\ ( /\ state.showInstructions
             /\ \/ AppendAny
                \/ JUMP_FORWARDS
                \/ JUMP_BACKWARDS
                \/ JUMP_START
                \/ JUMP_END )
           => state' = state
        /\ (state.finished /\ AppendAny) => state' = state ]_vars

\* the overlay shown over a session that stands on a later level, in the middle
\* of a word, at a later clock value than its last save
C11_Witness ==
    /\ state.showInstructions
    /\ state.level > 0
    /\ state.buffer # <<>>
    /\ state.lastSave < now

\* C12: TOGGLE_MUTED dispatched twice in a row returns muted to its value and
\* leaves every other field but lastSave as it was.
C12_ToggleMutedTwice ==
    \A t1 \in ClockValues : \A t2 \in ClockValues :
        (now <= t1 /\ t1 <= t2) =>
            LET once == toggleMutedResult(state, t1)
                twice == toggleMutedResult(once, t2)
            IN  /\ once.muted # state.muted
                /\ twice.muted = state.muted
                /\ twice.lastSave = t2
                /\ [ twice EXCEPT !.lastSave = state.lastSave ] = state

\* sound switched on, then a word typed up to its last character
C12_Witness ==
    /\ ~state.muted
    /\ ~state.showInstructions
    /\ Len(state.buffer) = 2
    /\ state.lastSave # Undefined

---------------------------------------------------------------------------
(* The keystroke after an attempt, endTime and the error sound *)

\* the word has been typed to its last position and the attempt evaluated:
\* every position carries a mark, endTime and wpm are set, the streak is short
\* of the target
AwaitingConfirm ==
    /\ ~state.showInstructions
    /\ ~state.finished
    /\ state.word.endTime # Undefined
    /\ state.word.wpm # Undefined
    /\ state.word.streak < state.targetStreak
    /\ \A i \in 1..Len(state.word.characters) : correctAt(state.word, i) # "undefined"

\* the state after a replay of the same level started with ch
ReplayOutcome(ch) ==
    LET carried == IF state.word.match /\ state.word.wpm >= state.targetWPM
                   THEN state.word.streak ELSE 0
    IN  /\ state'.level = state.level
        /\ state'.buffer = <<ch>>
        /\ state'.word =
             [ createWord(activeWordlist(state), state.level)
                 EXCEPT !.startTime = now,
                        !.streak = carried,
                        !.characters = markCharacters(@, <<ch>>) ]

\* C15 as stated: in AwaitingConfirm the next APPEND_BUFFER(ch), for any single
\* character ch, starts a replay of the same level.
C15_AnyKeyReplays ==
    [][ \A ch \in Keys : (AwaitingConfirm /\ APPEND_BUFFER(ch)) => ReplayOutcome(ch) ]_vars

\* C15: in AwaitingConfirm the next APPEND_BUFFER(ch) starts a replay of the
\* same level (level unchanged, fresh word started at the clock value, buffer
\* = ch, streak carried when the attempt matched and met targetWPM, else 0)
\* when ch is the first character of the word; a space is ignored, and any
\* other character is a mismatch on the word as it stands: buffer empty,
\* streak 0, wpm 0, first position marked wrong, no fresh word.
C15_FirstKeyReplays ==
    [][ \A ch \in Keys :
          (AwaitingConfirm /\ APPEND_BUFFER(ch)) =>
            IF ch = state.word.characters[1].character THEN ReplayOutcome(ch)
            ELSE IF ch = " " THEN state' = state
            ELSE /\ state'.level = state.level
                 /\ state'.buffer = <<>>
                 /\ state'.word.streak = 0
                 /\ state'.word.wpm = 0
                 /\ ~state'.word.match
                 /\ state'.word.startTime = state.word.startTime
                 /\ state'.word.endTime = now
                 /\ correctAt(state'.word, 1) = "false" ]_vars

\* a replay under way that carries a streak over from the attempt before
C15_Witness ==
    /\ state.word.streak > 0
    /\ Len(state.buffer) = 1
    /\ state.word.endTime = Undefined
    /\ state.word.wpm = Undefined
    /\ state.lastWPM # Undefined

\* C16 as stated: endTime takes a value only on the APPEND_BUFFER step in which
\* the appended buffer reaches the full word length, from undefined, and no
\* other step sets or rewrites it.
C16_EndTimeSetOnce ==
    [][ (state'.word.endTime # state.word.endTime /\ state'.word.endTime # Undefined) =>
          /\ state.word.endTime = Undefined
          /\ Len(state.buffer) + 1 = Len(state.word.characters)
          /\ AppendAny ]_vars

\* C16: endTime takes a new value only on an APPEND_BUFFER step, and then the
\* value is the clock value: either the step completes the word (full length,
\* every character matching, endTime undefined before), or it is a mismatch,
\* at any length and whether or not endTime was set before. Every other
\* change of endTime is back to undefined, together with wpm, on a fresh word.
C16_EndTimeSteps ==
    [][ state'.word.endTime # state.word.endTime =>
          \/ /\ state'.word.endTime = Undefined
             /\ state'.word.wpm = Undefined
             /\ ~state'.word.match
          \/ /\ state'.word.endTime = now
             /\ \E ch \in Keys : CompletionStep(ch) \/ MismatchStep(ch) ]_vars

\* endTime stamped by a wrong character on a started three-character word, and
\* stamped again by a wrong first key
C16_Witness ==
    /\ state.word.endTime = now
    /\ state.word.startTime # Undefined
    /\ state.word.startTime < now
    /\ Len(state.word.characters) = 3
    /\ correctAt(state.word, 1) = "false"
    /\ ~state.word.match
    /\ state.lastWPM = Undefined

\* this step is APPEND_BUFFER(ch), past the guards, and ch is the first wrong
\* character of the attempt: the buffer so far matches, the buffer with ch does not
FirstWrongStep(ch) ==
    /\ MismatchStep(ch)
    /\ isPrefix(state.buffer, expectedText(state))

\* C17: with sound on, the APPEND_BUFFER of the first wrong character of an
\* attempt requests errorSound.
C17_FirstErrorSounds ==
    [][ \A ch \in Keys :
          (FirstWrongStep(ch) /\ ~state.muted) =>
             \E i \in 1..Len(sounds') : sounds'[i] = errorSounds[1] ]_vars

\* errorSound is never requested at all
C17_ErrorSoundNeverRequested ==
    \A i \in 1..Len(sounds) : sounds[i] # errorSounds[1]

---------------------------------------------------------------------------
(* Leaving the finished state, the buffer length and the streak guard *)

JumpAny == JUMP_FORWARDS \/ JUMP_BACKWARDS \/ JUMP_START \/ JUMP_END

\* C18 as stated: once finished is true, only RESET_STATE produces a state with
\* finished false.
C18_OnlyResetLeaves ==
    [][ (state.finished /\ ~state'.finished) => RESET_STATE ]_vars

\* C18: once finished is true, a state with finished false is produced only by
\* RESET_STATE, by SET_WORDLIST, or by a JUMP action dispatched while the
\* instructions are hidden, and each of these always produces one;
\* APPEND_BUFFER, SAVE_STATE, the toggles, the target setters, and the JUMP
\* actions under the instructions overlay leave finished true.
C18_FinishedLeftBy ==
    [][ state.finished =>
          /\ ~state'.finished =>
                \/ RESET_STATE
                \/ SetWordlistAny
                \/ (~state.showInstructions /\ JumpAny)
          /\ (RESET_STATE \/ SetWordlistAny \/ (~state.showInstructions /\ JumpAny))
                => ~state'.finished
          /\ ( \/ AppendAny
               \/ SAVE_STATE
               \/ TOGGLE_INSTRUCTIONS
               \/ TOGGLE_DARK_MODE
               \/ TOGGLE_MUTED
               \/ SetTargetStreakAny
               \/ SetTargetWPMAny
               \/ (state.showInstructions /\ JumpAny) ) => state'.finished ]_vars

\* a finished session whose target streak was raised after the finish, with
\* the colour scheme and the sound switched since the start
C18_Witness ==
    /\ state.finished
    /\ state.targetStreak > state.word.streak + 1
    /\ ~state.darkMode
    /\ ~state.muted

\* C19: the buffer is shorter than the word, so the buffer with one more
\* character is at most as long as the word and the match test of
\* APPEND_BUFFER reads no position past the end of word.characters.
C19_BufferWithinWord ==
    /\ Len(state.buffer) <= Len(state.word.characters)
    /\ Len(state.buffer \o <<"a">>) <= Len(state.word.characters)

\* a three-character word typed up to its last character
C19_Witness ==
    /\ Len(state.buffer) = 2
    /\ Len(state.word.characters) = 3
    /\ correctAt(state.word, 2) = "true"
    /\ state.word.endTime = Undefined
    /\ ~state.finished

\* C20: word.streak < targetStreak whenever finished is false.
C20_StreakBelowTarget ==
    ~state.finished => state.word.streak < state.targetStreak

---------------------------------------------------------------------------
(* playSound and loadSound: the audio side of APPEND_BUFFER.               *)
(* Spec follows the state the reducer returns and the sounds playSound     *)
(* lets through; SoundSpec follows what playSound then does with them.     *)

\* loadSound promises pending at one time, and loadSound calls per name
MaxLoading == 2
MaxFetches == 2

\* the names among those let through whose buffer is in SOUNDS
soundsReady(a, names) == SelectSeq(names, LAMBDA n : n \in a.SOUNDS)

\* the names among those let through whose buffer is not in SOUNDS
soundsMissing(a, names) == SelectSeq(names, LAMBDA n : n \notin a.SOUNDS)

\* playSound past the muted check, for each name let through by a dispatch
\* whose state had the given muted flag: source.start(0) when SOUNDS[name]
\* is there, else loadSound(name).then(() => playSound(name, parameters))
playRequested(a, names, muted) ==
    LET missing == soundsMissing(a, names)
    IN  [ a EXCEPT !.started = soundsReady(a, names),
                   !.loading = @ \o [ i \in 1..Len(missing) |->
                                        [ name |-> missing[i], muted |-> muted ] ],
                   !.fetches = [ n \in SoundNames |->
                                   @[n] + Len(SelectSeq(missing, LAMBDA m : m = n)) ] ]

\* the sequence without its i-th element
removeAt(seq, i) == SubSeq(seq, 1, i - 1) \o SubSeq(seq, i + 1, Len(seq))

\* the i-th pending loadSound resolves: SOUNDS[name] is set, then the callback
\* calls playSound(name) of the dispatch that made the request, which reads the
\* muted flag of the state that dispatch was given
loadResolved(a, i) ==
    LET load == a.loading[i]
        loaded == [ a EXCEPT !.SOUNDS = @ \cup {load.name}, !.loading = removeAt(@, i) ]
    IN  playRequested(loaded, playSound([ muted |-> load.muted ], load.name), load.muted)

\* the i-th pending loadSound rejects: the callback is never called
loadRejected(a, i) == [ a EXCEPT !.loading = removeAt(@, i), !.started = <<>> ]

\* APPEND_BUFFER with the audio side of its playSound calls
APPEND_BUFFER_SOUND(payload) ==
    LET played == appendBufferSounds(state, payload, now)
        after == playRequested(audio, played, state.muted)
    IN  /\ Len(after.loading) <= MaxLoading
        /\ \A n \in SoundNames : after.fetches[n] <= MaxFetches
        /\ state' = appendBufferResult(state, payload, now)
        /\ sounds' = played
        /\ audio' = after
        /\ UNCHANGED <<now, page>>

LoadResolves(i) ==
    /\ i \in 1..Len(audio.loading)
    /\ audio' = loadResolved(audio, i)
    /\ sounds' = <<>>
    /\ UNCHANGED <<state, now, page>>

LoadRejects(i) ==
    /\ i \in 1..Len(audio.loading)
    /\ audio' = loadRejected(audio, i)
    /\ sounds' = <<>>
    /\ UNCHANGED <<state, now, page>>

AppendSoundAny == \E payload \in Keys : APPEND_BUFFER_SOUND(payload)

LoadResolvesAny == \E i \in 1..MaxLoading : LoadResolves(i)

LoadRejectsAny == \E i \in 1..MaxLoading : LoadRejects(i)

SoundNext ==
    \/ AppendSoundAny
    \/ TOGGLE_MUTED
    \/ TOGGLE_INSTRUCTIONS
    \/ LoadResolvesAny
    \/ LoadRejectsAny
    \/ Tick

SoundSpec == Init /\ [][SoundNext]_vars

\* C13: no sound is started while the session is muted, neither by a
\* transition nor by the deferred playSound of a load that resolves after
\* the user has muted.
C13_MutedIsSilent ==
    audio.started # <<>> => ~state.muted

\* C14: for every sound name at most one loadSound call is started per
\* session, however many requests arrive before the first load completes.
C14_OneFetchPerName ==
    \A n \in SoundNames : audio.fetches[n] <= 1

---------------------------------------------------------------------------
(* Properties of the reducer of page.tsx *)

\* C8 as claimed: level is a valid index into the wordlist, also when finished.
C8_PageLevelIsIndex == 0 <= page.level /\ page.level < Len(wordlist)

\* C8 as amended: level is a valid index into the wordlist while the game is
\* not finished, and is the length of the wordlist exactly when it is finished.
C8_PageLevelRange ==
    /\ 0 <= page.level
    /\ page.level <= Len(wordlist)
    /\ page.finished <=> page.level = Len(wordlist)

\* the last word passed: finished, level one past the last index
C8_Witness ==
    /\ page.finished
    /\ page.level = Len(wordlist)
    /\ page.word.match
    /\ page.word.endTime # Undefined

\* C21: the first NEXT_LEVEL on a non-empty buffer with endTime undefined only
\* evaluates the attempt (endTime, wpm, match, hitTargetWPM and streak are
\* set) and changes neither level nor buffer; level rises only by a
\* NEXT_LEVEL, by exactly 1, taken on an evaluated word with match true,
\* wpm >= targetWPM and streak >= targetStreak; APPEND_BUFFER and
\* BACKSPACE_BUFFER never change level and are ignored once endTime is set.
C21_DoubleConfirmation ==
    [][ /\ (PAGE_NEXT_LEVEL /\ page.buffer # <<>> /\ page.word.endTime = Undefined) =>
              /\ page'.level = page.level
              /\ page'.buffer = page.buffer
              /\ page'.finished = page.finished
              /\ page'.word.endTime = now
              /\ page'.word.wpm = pageWpmOf(page.word.startTime, now)
              /\ page'.word.match = pageMatchOf(page.word, page.buffer)
              /\ page'.word.hitTargetWPM = (page'.word.wpm >= page.targetWPM)
              /\ page'.word.streak =
                   IF page'.word.match /\ page'.word.hitTargetWPM
                   THEN page.word.streak + 1 ELSE 0
              /\ page'.word.characters = page.word.characters
              /\ page'.word.startTime = page.word.startTime
        /\ page'.level > page.level =>
              /\ PAGE_NEXT_LEVEL
              /\ page'.level = page.level + 1
              /\ page.word.endTime # Undefined
              /\ page.word.match
              /\ page.word.wpm >= page.targetWPM
              /\ page.word.streak >= page.targetStreak
        /\ (PageAppendAny \/ PAGE_BACKSPACE_BUFFER) =>
              /\ page'.level = page.level
              /\ page.word.endTime # Undefined => page' = page ]_vars

\* the first word passed by an evaluation and a confirmation, and the attempt
\* on the second word evaluated and waiting for its confirmation
C21_Witness ==
    /\ page.level = startingLevel + 1
    /\ ~page.finished
    /\ page.word.endTime # Undefined
    /\ page.word.match
    /\ Len(page.buffer) = 2
    /\ page.word.streak < page.targetStreak

=============================================================================
